---- MODULE Spec2Model ----
(***************************************************************************)
(* Model of aws-golang-sdk/utils/utils.go: ConcurrentMultipartUpload and   *)
(* the sequential MultipartUpload.  One run is one call of one of the two. *)
(* The coordinator (the calling goroutine), one goroutine per part and the *)
(* closer goroutine are interleaved; the three S3 operations               *)
(* (CreateMultipartUpload, UploadPart, CompleteMultipartUpload) are the    *)
(* environment: each call either fails or returns a tag, and is counted.   *)
(***************************************************************************)
EXTENDS Integers, Sequences, FiniteSets, TLC

\* ---------------------------------------------------------------- bounds
MaxFileSize == 3          \* file sizes 0..MaxFileSize bytes
MaxPartSize == 3          \* part sizes up to MaxPartSize bytes
MaxSmallConcurrency == 2  \* maxConcurrency values below the limit that are tried
NegInputs == 1            \* how far below zero partSize and maxConcurrency go

\* ------------------------------------------------------ program constants
ConcurrencyLimit == 8     \* "if maxConcurrency > 8"

\* ----------------------------------------------------------------- inputs
FileSizes == 0..MaxFileSize
PartSizes == (0 - NegInputs)..MaxPartSize
Concurrencies == ((0 - NegInputs)..MaxSmallConcurrency) \cup {ConcurrencyLimit, ConcurrencyLimit + 1}
Parts == 1..MaxFileSize   \* part numbers a run can reach (partSize >= 1 byte)
Buffers == 0..MaxFileSize \* buffers a run can allocate (0: the one of MultipartUpload)

VARIABLES
  fn,              \* the function called: "concurrent" or "sequential"
  fileSize,        \* size of the file at filePath
  partSize,        \* argument partSize
  maxConcurrency,  \* argument maxConcurrency (0 in a sequential run: no such argument)
  pc,              \* position of the coordinator (the caller's goroutine)
  result,          \* what ConcurrentMultipartUpload returned
  filePos,         \* read offset of fd
  partNumber,      \* local partNumber
  tpc,             \* tpc[p]: position of the goroutine spawned for part p
  toff,            \* toff[p]: file offset the buffer of part p was read from
  tlen,            \* tlen[p]: bytesRead captured by the goroutine of part p
  tres,            \* tres[p]: what UploadPart returned for part p
  semaphore,       \* number of tokens in the semaphore channel
  partCh,          \* buffered contents of partCh
  closed,          \* partCh has been closed
  wg,              \* WaitGroup counter
  closer,          \* position of the goroutine that waits and closes partCh
  completedParts,  \* local completedParts
  collected,       \* part numbers in the order the coordinator received them
  createResp,      \* what CreateMultipartUpload returned
  initiateCalls,   \* number of CreateMultipartUpload calls made
  uploadCalls,     \* uploadCalls[p]: number of UploadPart calls made for part p
  completeCalls,   \* number of CompleteMultipartUpload calls made
  manifest,        \* Parts argument of the CompleteMultipartUpload call
  completeResp,    \* what CompleteMultipartUpload returned
  session,         \* the multipart upload session on the store
  heap,            \* heap[b]: file offset the bytes now in buffer b were read from
  tbuf,            \* tbuf[p]: the buffer the goroutine (or call) of part p refers to
  body,            \* body[p]: the bytes UploadPart was handed for part p
  partUploadId,    \* partUploadId[p]: UploadId field of the UploadPart call for part p
  completeUploadId \* UploadId field of the CompleteMultipartUpload call

vars == <<fn, fileSize, partSize, maxConcurrency, pc, result, filePos, partNumber,
          tpc, toff, tlen, tres, semaphore, partCh, closed, wg, closer,
          completedParts, collected, createResp, initiateCalls, uploadCalls,
          completeCalls, manifest, completeResp, session, heap, tbuf, body,
          partUploadId, completeUploadId>>

inputs == <<fn, fileSize, partSize, maxConcurrency>>
taskVars == <<tpc, toff, tlen, tres>>
chanVars == <<semaphore, partCh, closed, wg, closer>>
callVars == <<createResp, initiateCalls, uploadCalls, completeCalls, manifest>>
storeVars == <<completeResp, session>>
bufVars == <<heap, tbuf, body>>
reqVars == <<partUploadId, completeUploadId>>

\* ---------------------------------------------------------------- helpers
Min(a, b) == IF a < b THEN a ELSE b

NoResult == [kind |-> "running", part |-> 0]
Failure(k) == [kind |-> k, part |-> 0]
PartFailure(p) == [kind |-> "PartUploadFailed", part |-> p]

\* a read that keeps only full buffers and drops the short tail of the file
BytesReadMutant(size, pos, bufLen) == IF size - pos >= bufLen THEN bufLen ELSE 0

\* The ETag the store returns for a part identifies the body it received (it
\* is a digest of the body); the body is the byte range (offset, length).
ETagOf(off, len) == <<off, len>>

NoBody == [off |-> 0, len |-> 0]

NoResp == [status |-> "none", ETag |-> <<>>]
ErrResp == [status |-> "err", ETag |-> <<>>]
OkResp(tag) == [status |-> "ok", ETag |-> tag]

\* an UploadId field that is left unset
UploadIdMutant(resp) == "unset"

\* "UploadId: createResp.UploadId": the field of the output that
\* CreateMultipartUpload returned (no output, no id)
UploadId(resp) == IF resp = "id" THEN "id" ELSE "unset"

\* fd.Read(buffer) on a regular file: fills the buffer up to end of file.
BytesRead(size, pos, bufLen) == Min(bufLen, size - pos)

\* a channel whose capacity is never enforced
CanSendMutant(len, capacity) == TRUE

\* a send on a buffered channel proceeds while the buffer has room; with
\* capacity 0 nothing ever receives from the semaphore, so no send proceeds.
CanSend(len, capacity) == len < capacity

Init ==
  /\ fileSize \in FileSizes
  /\ partSize \in PartSizes
  /\ \/ fn = "concurrent" /\ maxConcurrency \in Concurrencies /\ pc = "validate"
     \/ fn = "sequential" /\ maxConcurrency = 0 /\ pc = "seqOpen"
  /\ result = NoResult
  /\ filePos = 0
  /\ partNumber = 1
  /\ tpc = [p \in Parts |-> "none"]
  /\ toff = [p \in Parts |-> 0]
  /\ tlen = [p \in Parts |-> 0]
  /\ tres = [p \in Parts |-> NoResp]
  /\ semaphore = 0
  /\ partCh = <<>>
  /\ closed = FALSE
  /\ wg = 0
  /\ closer = "none"
  /\ completedParts = <<>>
  /\ collected = <<>>
  /\ createResp = "none"
  /\ initiateCalls = 0
  /\ uploadCalls = [p \in Parts |-> 0]
  /\ completeCalls = 0
  /\ manifest = <<>>
  /\ completeResp = "none"
  /\ session = "none"
  /\ heap = [b \in Buffers |-> 0]
  /\ tbuf = [p \in Parts |-> 0]
  /\ body = [p \in Parts |-> NoBody]
  /\ partUploadId = [p \in Parts |-> "unset"]
  /\ completeUploadId = "unset"

\* ------------------------------------------------------------ coordinator
\* the limit check off by one
TooConcurrentMutant(c) == c > ConcurrencyLimit + 1

\* if maxConcurrency > 8 { return nil, fmt.Errorf(...) }
TooConcurrent(c) == c > ConcurrencyLimit

Validate ==
  /\ pc = "validate"
  /\ IF TooConcurrent(maxConcurrency)
       THEN pc' = "returned" /\ result' = Failure("InvalidConfiguration")
       ELSE pc' = "open" /\ UNCHANGED result
  /\ UNCHANGED <<inputs, filePos, partNumber, taskVars, chanVars,
                 completedParts, collected, callVars,
                 storeVars, bufVars, reqVars>>

\* fd, err := os.Open(filePath)
OpenFile ==
  /\ pc = "open"
  /\ \E ok \in BOOLEAN :
       IF ok THEN pc' = "initiate" /\ UNCHANGED result
             ELSE pc' = "returned" /\ result' = Failure("OpenFailed")
  /\ UNCHANGED <<inputs, filePos, partNumber, taskVars, chanVars,
                 completedParts, collected, callVars,
                 storeVars, bufVars, reqVars>>

\* the error of CreateMultipartUpload is not checked
InitiateMutant ==
  /\ pc = "initiate"
  /\ initiateCalls' = initiateCalls + 1
  /\ \E r \in {"id", "err"} :
       /\ createResp' = r
       /\ session' = IF r = "id" THEN "initiated" ELSE session
  /\ pc' = "make"
  /\ UNCHANGED <<inputs, result, filePos, partNumber, taskVars, chanVars,
                 completedParts, collected, uploadCalls, completeCalls, manifest,
                 completeResp, bufVars, reqVars>>

\* a coordinator that calls CreateMultipartUpload a second time after an error
InitiateRetryMutant ==
  /\ pc = "initiate"
  /\ initiateCalls' = initiateCalls + 1
  /\ \E r \in {"id", "err"} :
       /\ createResp' = r
       /\ session' = IF r = "id" THEN "initiated" ELSE session
       /\ IF r = "err"
            THEN IF initiateCalls = 0
                   THEN pc' = "initiate" /\ UNCHANGED result
                   ELSE pc' = "returned" /\ result' = Failure("InitiateFailed")
            ELSE pc' = "make" /\ UNCHANGED result
  /\ UNCHANGED <<inputs, filePos, partNumber, taskVars, chanVars,
                 completedParts, collected, uploadCalls, completeCalls, manifest,
                 completeResp, bufVars, reqVars>>

\* createResp, err := svc.CreateMultipartUpload(...); if err != nil { return }
Initiate ==
  /\ pc = "initiate"
  /\ initiateCalls' = initiateCalls + 1
  /\ \E r \in {"id", "err"} :
       /\ createResp' = r
       /\ session' = IF r = "id" THEN "initiated" ELSE session
       /\ IF r = "err"
            THEN pc' = "returned" /\ result' = Failure("InitiateFailed")
            ELSE pc' = "make" /\ UNCHANGED result
  /\ UNCHANGED <<inputs, filePos, partNumber, taskVars, chanVars,
                 completedParts, collected, uploadCalls, completeCalls, manifest,
                 completeResp, bufVars, reqVars>>

\* partCh := make(chan PartResult, maxConcurrency); semaphore := make(...)
\* make panics on a negative capacity.
MakeChannels ==
  /\ pc = "make"
  /\ IF maxConcurrency < 0
       THEN pc' = "returned" /\ result' = Failure("Panic")
       ELSE pc' = "read" /\ UNCHANGED result
  /\ UNCHANGED <<inputs, filePos, partNumber, taskVars, chanVars,
                 completedParts, collected, callVars,
                 storeVars, bufVars, reqVars>>

\* buffer := make([]byte, partSize) panics on a negative length.
AllocPanic ==
  /\ pc = "read"
  /\ partSize < 0
  /\ pc' = "returned"
  /\ result' = Failure("Panic")
  /\ UNCHANGED <<inputs, filePos, partNumber, taskVars, chanVars,
                 completedParts, collected, callVars,
                 storeVars, bufVars, reqVars>>

\* fd.Read returns an error other than io.EOF
ReadFail ==
  /\ pc = "read"
  /\ partSize >= 0
  /\ pc' = "returned"
  /\ result' = Failure("ReadFailed")
  /\ UNCHANGED <<inputs, filePos, partNumber, taskVars, chanVars,
                 completedParts, collected, callVars,
                 storeVars, bufVars, reqVars>>

\* one buffer for all parts, allocated before the loop as in MultipartUpload
BufferAllocMutant(n) == 0

\* "buffer := make([]byte, partSize)" inside the loop: iteration n gets a
\* buffer of its own
BufferAlloc(n) == n

\* the part number is advanced twice per iteration
NextPartNumberMutant(n) == n + 2

\* partNumber++ at the end of a loop iteration
NextPartNumber(n) == n + 1

\* a file whose first read returns nothing is rejected
ReadPartRejectsEmpty ==
  /\ pc = "read"
  /\ partSize >= 0
  /\ LET bytesRead == BytesRead(fileSize, filePos, partSize) IN
       IF bytesRead = 0
         THEN /\ IF partNumber = 1
                   THEN pc' = "returned" /\ result' = Failure("EmptyFileNotSupported")
                   ELSE pc' = "spawnCloser" /\ UNCHANGED result
              /\ UNCHANGED <<filePos, partNumber, taskVars, wg, heap, tbuf>>
         ELSE /\ wg' = wg + 1
              /\ heap' = [heap EXCEPT ![BufferAlloc(partNumber)] = filePos]
              /\ tbuf' = [tbuf EXCEPT ![partNumber] = BufferAlloc(partNumber)]
              /\ tpc' = [tpc EXCEPT ![partNumber] = "acquire"]
              /\ toff' = [toff EXCEPT ![partNumber] = filePos]
              /\ tlen' = [tlen EXCEPT ![partNumber] = bytesRead]
              /\ filePos' = filePos + bytesRead
              /\ partNumber' = NextPartNumber(partNumber)
              /\ UNCHANGED <<pc, tres, result>>
  /\ UNCHANGED <<inputs, semaphore, partCh, closed, closer,
                 completedParts, collected, callVars, storeVars, body, reqVars>>

\* a dispatch loop that takes the semaphore slot itself before it spawns, so
\* it waits while maxConcurrency goroutines are unfinished
ReadPartWaitsForSlotMutant ==
  /\ pc = "read"
  /\ partSize >= 0
  /\ LET bytesRead == BytesRead(fileSize, filePos, partSize) IN
       IF bytesRead = 0
         THEN /\ pc' = "spawnCloser"
              /\ UNCHANGED <<filePos, partNumber, taskVars, wg, heap, tbuf>>
         ELSE /\ CanSend(wg, maxConcurrency)
              /\ wg' = wg + 1
              /\ heap' = [heap EXCEPT ![BufferAlloc(partNumber)] = filePos]
              /\ tbuf' = [tbuf EXCEPT ![partNumber] = BufferAlloc(partNumber)]
              /\ tpc' = [tpc EXCEPT ![partNumber] = "acquire"]
              /\ toff' = [toff EXCEPT ![partNumber] = filePos]
              /\ tlen' = [tlen EXCEPT ![partNumber] = bytesRead]
              /\ filePos' = filePos + bytesRead
              /\ partNumber' = NextPartNumber(partNumber)
              /\ UNCHANGED <<pc, tres>>
  /\ UNCHANGED <<inputs, result, semaphore, partCh, closed, closer,
                 completedParts, collected, callVars, storeVars, body, reqVars>>

\* one iteration of the read loop: read the next buffer, leave the loop when
\* nothing was read, otherwise wg.Add(1) and spawn the goroutine of the part,
\* which captures partNumber, the buffer (by reference) and bytesRead.
ReadPart ==
  /\ pc = "read"
  /\ partSize >= 0
  /\ LET bytesRead == BytesRead(fileSize, filePos, partSize) IN
       IF bytesRead = 0
         THEN /\ pc' = "spawnCloser"
              /\ UNCHANGED <<filePos, partNumber, taskVars, wg, heap, tbuf>>
         ELSE /\ wg' = wg + 1
              /\ heap' = [heap EXCEPT ![BufferAlloc(partNumber)] = filePos]
              /\ tbuf' = [tbuf EXCEPT ![partNumber] = BufferAlloc(partNumber)]
              /\ tpc' = [tpc EXCEPT ![partNumber] = "acquire"]
              /\ toff' = [toff EXCEPT ![partNumber] = filePos]
              /\ tlen' = [tlen EXCEPT ![partNumber] = bytesRead]
              /\ filePos' = filePos + bytesRead
              /\ partNumber' = NextPartNumber(partNumber)
              /\ UNCHANGED <<pc, tres>>
  /\ UNCHANGED <<inputs, result, semaphore, partCh, closed, closer,
                 completedParts, collected, callVars, storeVars, body, reqVars>>

\* go func() { wg.Wait(); close(partCh) }()
SpawnCloser ==
  /\ pc = "spawnCloser"
  /\ pc' = "collect"
  /\ closer' = "wait"
  /\ UNCHANGED <<inputs, result, filePos, partNumber, taskVars, semaphore,
                 partCh, closed, wg, completedParts, collected, callVars,
                 storeVars, bufVars, reqVars>>

\* close(partCh) without wg.Wait()
CloserCloseMutant ==
  /\ closer = "wait"
  /\ closed' = TRUE
  /\ closer' = "exited"
  /\ UNCHANGED <<inputs, pc, result, filePos, partNumber, taskVars, semaphore,
                 partCh, wg, completedParts, collected, callVars,
                 storeVars, bufVars, reqVars>>

\* wg.Wait() returns when the counter is zero; then close(partCh)
CloserClose ==
  /\ closer = "wait"
  /\ wg = 0
  /\ closed' = TRUE
  /\ closer' = "exited"
  /\ UNCHANGED <<inputs, pc, result, filePos, partNumber, taskVars, semaphore,
                 partCh, wg, completedParts, collected, callVars,
                 storeVars, bufVars, reqVars>>

\* the session is aborted on the store when a failed PartResult is received
CollectMutant ==
  /\ pc = "collect"
  /\ partCh # <<>>
  /\ LET partResult == Head(partCh) IN
       /\ partCh' = Tail(partCh)
       /\ collected' = Append(collected, partResult.PartNumber)
       /\ IF partResult.Err
            THEN /\ pc' = "returned"
                 /\ result' = PartFailure(partResult.PartNumber)
                 /\ session' = "aborted"
                 /\ UNCHANGED completedParts
            ELSE /\ completedParts' = Append(completedParts,
                        [PartNumber |-> partResult.PartNumber, ETag |-> partResult.ETag])
                 /\ UNCHANGED <<pc, result, session>>
  /\ UNCHANGED <<inputs, filePos, partNumber, taskVars, semaphore, closed, wg,
                 closer, callVars, completeResp, bufVars, reqVars>>

\* a coordinator that takes the results in part order, as a loop over
\* futures would: it receives part k only after parts 1..k-1
CollectInPartOrderMutant ==
  /\ pc = "collect"
  /\ \E i \in 1..Len(partCh) :
       LET partResult == partCh[i] IN
         /\ partResult.PartNumber = Len(collected) + 1
         /\ partCh' = SubSeq(partCh, 1, i - 1) \o SubSeq(partCh, i + 1, Len(partCh))
         /\ collected' = Append(collected, partResult.PartNumber)
         /\ IF partResult.Err
              THEN /\ pc' = "returned"
                   /\ result' = PartFailure(partResult.PartNumber)
                   /\ UNCHANGED completedParts
              ELSE /\ completedParts' = Append(completedParts,
                          [PartNumber |-> partResult.PartNumber, ETag |-> partResult.ETag])
                   /\ UNCHANGED <<pc, result>>
  /\ UNCHANGED <<inputs, filePos, partNumber, taskVars, semaphore, closed, wg,
                 closer, callVars, storeVars, bufVars, reqVars>>

\* the error names the coordinator's own part counter instead of the part
\* number carried by the PartResult
CollectNamesCounterMutant ==
  /\ pc = "collect"
  /\ partCh # <<>>
  /\ LET partResult == Head(partCh) IN
       /\ partCh' = Tail(partCh)
       /\ collected' = Append(collected, partResult.PartNumber)
       /\ IF partResult.Err
            THEN /\ pc' = "returned"
                 /\ result' = PartFailure(partNumber - 1)
                 /\ UNCHANGED completedParts
            ELSE /\ completedParts' = Append(completedParts,
                        [PartNumber |-> partResult.PartNumber, ETag |-> partResult.ETag])
                 /\ UNCHANGED <<pc, result>>
  /\ UNCHANGED <<inputs, filePos, partNumber, taskVars, semaphore, closed, wg,
                 closer, callVars, storeVars, bufVars, reqVars>>

\* one iteration of "for partResult := range partCh": a buffered value is
\* received even after close; the first result with Err != nil is returned.
Collect ==
  /\ pc = "collect"
  /\ partCh # <<>>
  /\ LET partResult == Head(partCh) IN
       /\ partCh' = Tail(partCh)
       /\ collected' = Append(collected, partResult.PartNumber)
       /\ IF partResult.Err
            THEN /\ pc' = "returned"
                 /\ result' = PartFailure(partResult.PartNumber)
                 /\ UNCHANGED completedParts
            ELSE /\ completedParts' = Append(completedParts,
                        [PartNumber |-> partResult.PartNumber, ETag |-> partResult.ETag])
                 /\ UNCHANGED <<pc, result>>
  /\ UNCHANGED <<inputs, filePos, partNumber, taskVars, semaphore, closed, wg,
                 closer, callVars,
                 storeVars, bufVars, reqVars>>

\* the range loop ends when partCh is closed and drained
CollectEnd ==
  /\ pc = "collect"
  /\ partCh = <<>>
  /\ closed
  /\ pc' = "complete"
  /\ UNCHANGED <<inputs, result, filePos, partNumber, taskVars, chanVars,
                 completedParts, collected, callVars,
                 storeVars, bufVars, reqVars>>

\* sort.Slice(completedParts, less by PartNumber)
RECURSIVE Insert(_, _)
Insert(x, s) ==
  IF s = <<>> THEN <<x>>
  ELSE IF x.PartNumber < Head(s).PartNumber THEN <<x>> \o s
  ELSE <<Head(s)>> \o Insert(x, Tail(s))

\* the sort left out: arrival order is kept
SortMutant(s) == s

RECURSIVE SortByPartNumber(_)
SortByPartNumber(s) ==
  IF s = <<>> THEN <<>> ELSE Insert(Head(s), SortByPartNumber(Tail(s)))

\* the error of CompleteMultipartUpload is swallowed
CompleteResultMutant(r) == Failure("Completed")

\* "return svc.CompleteMultipartUpload(...)": the output and the error of the
\* call are what the function returns
CompleteResult(r) == IF r = "ok" THEN Failure("Completed") ELSE Failure("CompleteFailed")

\* sort in place, then return svc.CompleteMultipartUpload(...)
Complete ==
  /\ pc = "complete"
  /\ completedParts' = SortByPartNumber(completedParts)
  /\ manifest' = completedParts'
  /\ completeCalls' = completeCalls + 1
  /\ pc' = "returned"
  /\ \E r \in {"ok", "err"} :
       /\ completeResp' = r
       /\ session' = IF r = "ok" THEN "completed" ELSE session
       /\ result' = CompleteResult(r)
  /\ completeUploadId' = UploadId(createResp)
  /\ UNCHANGED <<inputs, filePos, partNumber, taskVars, chanVars, collected,
                 createResp, initiateCalls, uploadCalls, bufVars, partUploadId>>

\* ------------------------------------------------- goroutine of one part
\* semaphore <- struct{}{}, then the call of svc.UploadPart starts with
\* Body: bytes.NewReader(buffer[:bytesRead])
TaskAcquire(p) ==
  /\ tpc[p] = "acquire"
  /\ CanSend(semaphore, maxConcurrency)
  /\ semaphore' = semaphore + 1
  /\ tpc' = [tpc EXCEPT ![p] = "upload"]
  /\ uploadCalls' = [uploadCalls EXCEPT ![p] = @ + 1]
  /\ body' = [body EXCEPT ![p] = [off |-> heap[tbuf[p]], len |-> tlen[p]]]
  /\ partUploadId' = [partUploadId EXCEPT ![p] = UploadId(createResp)]
  /\ UNCHANGED <<inputs, pc, result, filePos, partNumber, toff, tlen, tres,
                 partCh, closed, wg, closer, completedParts, collected,
                 createResp, initiateCalls, completeCalls, manifest,
                 storeVars, heap, tbuf, completeUploadId>>

\* a failed UploadPart is called once more before the error is reported
UploadReturnMutant(p) ==
  /\ fn = "concurrent"
  /\ tpc[p] = "upload"
  /\ \E r \in {OkResp(ETagOf(body[p].off, body[p].len)), ErrResp} :
       /\ tres' = [tres EXCEPT ![p] = r]
       /\ IF r.status = "err" /\ uploadCalls[p] < 2
            THEN /\ uploadCalls' = [uploadCalls EXCEPT ![p] = @ + 1]
                 /\ UNCHANGED tpc
            ELSE /\ tpc' = [tpc EXCEPT ![p] = "send"]
                 /\ UNCHANGED uploadCalls
  /\ UNCHANGED <<inputs, pc, result, filePos, partNumber, toff, tlen, chanVars,
                 completedParts, collected, createResp, initiateCalls,
                 completeCalls, manifest, storeVars, bufVars, reqVars>>

\* svc.UploadPart returns an ETag or an error to the goroutine of part p
\* (MultipartUpload has no goroutines: its call returns in SeqUploadReturn)
UploadReturn(p) ==
  /\ fn = "concurrent"
  /\ tpc[p] = "upload"
  /\ \E r \in {OkResp(ETagOf(body[p].off, body[p].len)), ErrResp} :
       tres' = [tres EXCEPT ![p] = r]
  /\ tpc' = [tpc EXCEPT ![p] = "send"]
  /\ UNCHANGED <<inputs, pc, result, filePos, partNumber, toff, tlen, chanVars,
                 completedParts, collected, callVars,
                 storeVars, bufVars, reqVars>>

\* the error of UploadPart is dropped from the PartResult
PartResultOfMutant(p, r) == [PartNumber |-> p, ETag |-> r.ETag, Err |-> FALSE]

\* the PartResult the goroutine builds from what UploadPart returned
PartResultOf(p, r) ==
  IF r.status = "err" THEN [PartNumber |-> p, ETag |-> <<>>, Err |-> TRUE]
                      ELSE [PartNumber |-> p, ETag |-> r.ETag, Err |-> FALSE]

\* a goroutine that returns on an UploadPart error without sending
TaskSendSkipsErrorMutant(p) ==
  /\ tpc[p] = "send"
  /\ IF tres[p].status = "err"
       THEN UNCHANGED partCh
       ELSE /\ CanSend(Len(partCh), maxConcurrency)
            /\ partCh' = Append(partCh, PartResultOf(p, tres[p]))
  /\ tpc' = [tpc EXCEPT ![p] = "release"]
  /\ UNCHANGED <<inputs, pc, result, filePos, partNumber, toff, tlen, tres,
                 semaphore, closed, wg, closer, completedParts, collected, callVars,
                 storeVars, bufVars, reqVars>>

\* partCh <- PartResult{...}
TaskSend(p) ==
  /\ tpc[p] = "send"
  /\ CanSend(Len(partCh), maxConcurrency)
  /\ partCh' = Append(partCh, PartResultOf(p, tres[p]))
  /\ tpc' = [tpc EXCEPT ![p] = "release"]
  /\ UNCHANGED <<inputs, pc, result, filePos, partNumber, toff, tlen, tres,
                 semaphore, closed, wg, closer, completedParts, collected, callVars,
                 storeVars, bufVars, reqVars>>

\* the slot is never given back
TaskReleaseMutant(p) ==
  /\ tpc[p] = "release"
  /\ tpc' = [tpc EXCEPT ![p] = "wgdone"]
  /\ UNCHANGED <<inputs, pc, result, filePos, partNumber, toff, tlen, tres,
                 semaphore, partCh, closed, wg, closer, completedParts, collected,
                 callVars, storeVars, bufVars, reqVars>>

\* deferred func() { <-semaphore }()
TaskRelease(p) ==
  /\ tpc[p] = "release"
  /\ semaphore' = semaphore - 1
  /\ tpc' = [tpc EXCEPT ![p] = "wgdone"]
  /\ UNCHANGED <<inputs, pc, result, filePos, partNumber, toff, tlen, tres,
                 partCh, closed, wg, closer, completedParts, collected, callVars,
                 storeVars, bufVars, reqVars>>

\* deferred wg.Done()
TaskDone(p) ==
  /\ tpc[p] = "wgdone"
  /\ wg' = wg - 1
  /\ tpc' = [tpc EXCEPT ![p] = "exited"]
  /\ UNCHANGED <<inputs, pc, result, filePos, partNumber, toff, tlen, tres,
                 semaphore, partCh, closed, closer, completedParts, collected, callVars,
                 storeVars, bufVars, reqVars>>

\* ------------------------------------------------- MultipartUpload
\* fd, err := os.Open(filePath)
SeqOpenFile ==
  /\ pc = "seqOpen"
  /\ \E ok \in BOOLEAN :
       IF ok THEN pc' = "seqInitiate" /\ UNCHANGED result
             ELSE pc' = "returned" /\ result' = Failure("OpenFailed")
  /\ UNCHANGED <<inputs, filePos, partNumber, taskVars, chanVars,
                 completedParts, collected, callVars,
                 storeVars, bufVars, reqVars>>

\* createResp, err := svc.CreateMultipartUpload(...); if err != nil { return }
SeqInitiate ==
  /\ pc = "seqInitiate"
  /\ initiateCalls' = initiateCalls + 1
  /\ \E r \in {"id", "err"} :
       /\ createResp' = r
       /\ session' = IF r = "id" THEN "initiated" ELSE session
       /\ IF r = "err"
            THEN pc' = "returned" /\ result' = Failure("InitiateFailed")
            ELSE pc' = "seqAlloc" /\ UNCHANGED result
  /\ UNCHANGED <<inputs, filePos, partNumber, taskVars, chanVars,
                 completedParts, collected, uploadCalls, completeCalls, manifest,
                 completeResp, bufVars, reqVars>>

\* buffer := make([]byte, partSize): panics on a negative length
SeqAlloc ==
  /\ pc = "seqAlloc"
  /\ IF partSize < 0
       THEN pc' = "returned" /\ result' = Failure("Panic")
       ELSE pc' = "seqRead" /\ UNCHANGED result
  /\ UNCHANGED <<inputs, filePos, partNumber, taskVars, chanVars,
                 completedParts, collected, callVars,
                 storeVars, bufVars, reqVars>>

\* fd.Read returns an error other than io.EOF
SeqReadFail ==
  /\ pc = "seqRead"
  /\ pc' = "returned"
  /\ result' = Failure("ReadFailed")
  /\ UNCHANGED <<inputs, filePos, partNumber, taskVars, chanVars,
                 completedParts, collected, callVars,
                 storeVars, bufVars, reqVars>>

\* bytesRead, err := fd.Read(buffer); leave the loop when nothing was read,
\* otherwise call svc.UploadPart with buffer[:bytesRead] and partNumber
SeqReadPart ==
  /\ pc = "seqRead"
  /\ LET bytesRead == BytesRead(fileSize, filePos, partSize) IN
       IF bytesRead = 0
         THEN /\ pc' = "seqComplete"
              /\ UNCHANGED <<filePos, taskVars, uploadCalls, bufVars, reqVars>>
         ELSE /\ pc' = "seqUpload"
              /\ heap' = [heap EXCEPT ![0] = filePos]
              /\ tbuf' = [tbuf EXCEPT ![partNumber] = 0]
              /\ body' = [body EXCEPT ![partNumber] = [off |-> heap'[0], len |-> bytesRead]]
              /\ tpc' = [tpc EXCEPT ![partNumber] = "upload"]
              /\ toff' = [toff EXCEPT ![partNumber] = filePos]
              /\ tlen' = [tlen EXCEPT ![partNumber] = bytesRead]
              /\ filePos' = filePos + bytesRead
              /\ uploadCalls' = [uploadCalls EXCEPT ![partNumber] = @ + 1]
              /\ partUploadId' = [partUploadId EXCEPT ![partNumber] = UploadId(createResp)]
              /\ UNCHANGED <<tres, completeUploadId>>
  /\ UNCHANGED <<inputs, result, partNumber, chanVars, completedParts, collected,
                 createResp, initiateCalls, completeCalls, manifest, storeVars>>

\* the error of UploadPart is skipped and the loop goes on to the next part
SeqUploadReturnMutant ==
  /\ pc = "seqUpload"
  /\ \E r \in {OkResp(ETagOf(body[partNumber].off, body[partNumber].len)), ErrResp} :
       /\ tres' = [tres EXCEPT ![partNumber] = r]
       /\ IF r.status = "err"
            THEN UNCHANGED <<completedParts, collected>>
            ELSE /\ completedParts' = Append(completedParts,
                        [PartNumber |-> partNumber, ETag |-> r.ETag])
                 /\ collected' = Append(collected, partNumber)
  /\ partNumber' = partNumber + 1
  /\ pc' = "seqRead"
  /\ tpc' = [tpc EXCEPT ![partNumber] = "exited"]
  /\ UNCHANGED <<inputs, result, filePos, toff, tlen, chanVars, callVars,
                 storeVars, bufVars, reqVars>>

\* svc.UploadPart returns: an error is returned to the caller, a tag is
\* appended to completedParts and partNumber is incremented
SeqUploadReturn ==
  /\ pc = "seqUpload"
  /\ \E r \in {OkResp(ETagOf(body[partNumber].off, body[partNumber].len)), ErrResp} :
       /\ tres' = [tres EXCEPT ![partNumber] = r]
       /\ IF r.status = "err"
            THEN /\ pc' = "returned"
                 /\ result' = PartFailure(partNumber)
                 /\ UNCHANGED <<completedParts, collected, partNumber>>
            ELSE /\ completedParts' = Append(completedParts,
                        [PartNumber |-> partNumber, ETag |-> r.ETag])
                 /\ collected' = Append(collected, partNumber)
                 /\ partNumber' = partNumber + 1
                 /\ pc' = "seqRead"
                 /\ UNCHANGED result
  /\ tpc' = [tpc EXCEPT ![partNumber] = "exited"]
  /\ UNCHANGED <<inputs, filePos, toff, tlen, chanVars, callVars,
                 storeVars, bufVars, reqVars>>

\* return svc.CompleteMultipartUpload(...) with completedParts as appended
SeqComplete ==
  /\ pc = "seqComplete"
  /\ manifest' = completedParts
  /\ completeCalls' = completeCalls + 1
  /\ pc' = "returned"
  /\ \E r \in {"ok", "err"} :
       /\ completeResp' = r
       /\ session' = IF r = "ok" THEN "completed" ELSE session
       /\ result' = CompleteResult(r)
  /\ completeUploadId' = UploadId(createResp)
  /\ UNCHANGED <<inputs, filePos, partNumber, taskVars, chanVars, completedParts,
                 collected, createResp, initiateCalls, uploadCalls, bufVars, partUploadId>>

Next ==
  \/ Validate
  \/ OpenFile
  \/ Initiate
  \/ MakeChannels
  \/ AllocPanic
  \/ ReadFail
  \/ ReadPart
  \/ SpawnCloser
  \/ CloserClose
  \/ Collect
  \/ CollectEnd
  \/ Complete
  \/ \E p \in Parts : TaskAcquire(p)
  \/ \E p \in Parts : UploadReturn(p)
  \/ \E p \in Parts : TaskSend(p)
  \/ \E p \in Parts : TaskRelease(p)
  \/ \E p \in Parts : TaskDone(p)
  \/ SeqOpenFile
  \/ SeqInitiate
  \/ SeqAlloc
  \/ SeqReadFail
  \/ SeqReadPart
  \/ SeqUploadReturn
  \/ SeqComplete

Spec == Init /\ [][Next]_vars

\* The Go scheduler keeps running some runnable goroutine and every remote
\* call returns: as long as a step is possible, a step is taken.
FairSpec == Init /\ [][Next]_vars /\ WF_vars(Next)

TypeOK ==
  /\ pc \in {"validate", "open", "initiate", "make", "read", "spawnCloser",
             "collect", "complete", "returned", "seqOpen", "seqInitiate",
             "seqAlloc", "seqRead", "seqUpload", "seqComplete"}
  /\ fn \in {"concurrent", "sequential"}
  /\ semaphore \in Nat
  /\ wg \in Nat
  /\ partNumber \in 1..(MaxFileSize + 1)

\* ------------------------------------------------------------- properties
Dispatched == 1..(partNumber - 1)
InFlight == {p \in Parts : tpc[p] = "upload"}
SlotHolders == {p \in Parts : tpc[p] \in {"upload", "send", "release"}}
FailedParts == {p \in Parts : tres[p].status = "err"}
NoUploadCalls == \A p \in Parts : uploadCalls[p] = 0
CeilDiv(a, b) == (a + b - 1) \div b
Concurrent == fn = "concurrent"
ValidConcurrency == Concurrent /\ 1 <= maxConcurrency /\ maxConcurrency <= ConcurrencyLimit
LoopExited == pc = "spawnCloser" \/ closer # "none"

\* C1: with 1 <= maxConcurrency <= 8 the number of UploadPart calls that have
\* started and not returned never exceeds maxConcurrency, and a goroutine
\* that finds every slot taken stays waiting and makes no UploadPart call.
ConcurrencyBound ==
  /\ [](ValidConcurrency => Cardinality(InFlight) <= maxConcurrency)
  /\ [][\A p \in Parts :
          (ValidConcurrency /\ tpc[p] = "acquire"
             /\ Cardinality(SlotHolders) >= maxConcurrency)
          => (tpc'[p] = "acquire" /\ uploadCalls'[p] = uploadCalls[p])]_vars

\* the pool is full (maxConcurrency uploads in flight) while another part waits
ConcurrencyBoundWitness ==
  /\ ValidConcurrency
  /\ partNumber - 1 > maxConcurrency
  /\ Cardinality(InFlight) = maxConcurrency
  /\ \E p \in Parts : tpc[p] = "acquire"

\* C2: whatever the arrival order, the parts list passed to
\* CompleteMultipartUpload has entry i for part i, for exactly the dispatched
\* parts 1..N (so strictly ascending, no duplicate, none missing), each
\* with the tag its own UploadPart call returned.
ManifestOrdered ==
  (Concurrent /\ completeCalls > 0) =>
    /\ Len(manifest) = partNumber - 1
    /\ \A i \in 1..Len(manifest) :
         /\ manifest[i].PartNumber = i
         /\ tres[i].status = "ok"
         /\ manifest[i].ETag = tres[i].ETag

\* Complete was called after results arrived out of part order
ManifestOrderedWitness ==
  /\ Concurrent
  /\ completeCalls > 0
  /\ \E i, j \in 1..Len(collected) : i < j /\ collected[i] > collected[j]
  /\ Len(manifest) >= 3

\* C3: when part k is the only part whose UploadPart failed (and the file was
\* read without error), CompleteMultipartUpload is never invoked and, once
\* the function has returned, what it returned is the failure of part k.
FailFast ==
  \A k \in Parts :
    (Concurrent /\ FailedParts = {k} /\ result.kind # "ReadFailed") =>
      /\ completeCalls = 0
      /\ pc = "returned" => result = PartFailure(k)

\* part k of at least three failed, every other part succeeded, and the
\* function returned the failure of part k after collecting another result
FailFastWitness ==
  \E k \in Parts :
    /\ Concurrent
    /\ FailedParts = {k}
    /\ partNumber - 1 >= 3
    /\ \A j \in Dispatched \ {k} : tres[j].status = "ok"
    /\ result = PartFailure(k)
    /\ Len(collected) >= 2

\* C4: with maxConcurrency > 8 the function only ever returns the
\* configuration error, and no remote operation is invoked.
RejectsAboveLimit ==
  (Concurrent /\ maxConcurrency > ConcurrencyLimit) =>
    /\ initiateCalls = 0 /\ NoUploadCalls /\ completeCalls = 0
    /\ pc \in {"validate", "returned"}
    /\ pc = "returned" => result.kind = "InvalidConfiguration"

\* maxConcurrency = 9 was rejected
RejectsAboveLimitWitness ==
  /\ maxConcurrency = ConcurrencyLimit + 1
  /\ pc = "returned"
  /\ result.kind = "InvalidConfiguration"

\* C5: with maxConcurrency < 1 the function fails with InvalidConfiguration
\* before any remote call: CreateMultipartUpload is not invoked.
RejectsBelowOne ==
  (Concurrent /\ maxConcurrency < 1) => initiateCalls = 0

\* C6: with partSize <= 0 the function fails with InvalidConfiguration and
\* invokes no initiate, upload-part or complete operation.
RejectsBadPartSize ==
  (Concurrent /\ partSize <= 0) => (initiateCalls = 0 /\ NoUploadCalls /\ completeCalls = 0)

\* C7: when the function has returned a part-upload failure, every goroutine
\* it spawned has finished: none is in UploadPart, waiting for a slot or
\* waiting to deliver its result.
FailureSettlesAll ==
  (Concurrent /\ result.kind = "PartUploadFailed") =>
    \A p \in Parts : tpc[p] \in {"none", "exited"}

\* C8: CompleteMultipartUpload is invoked only after all N parts were
\* dispatched (N = ceil(fileSize/partSize) when partSize > 0), every
\* UploadPart call returned a tag, every goroutine finished and every result
\* was collected; never with a part failed, in flight or pending.
NoPartialManifest ==
  (Concurrent /\ (pc = "complete" \/ completeCalls > 0)) =>
    /\ partSize > 0 => partNumber - 1 = CeilDiv(fileSize, partSize)
    /\ \A p \in Dispatched :
         /\ uploadCalls[p] = 1
         /\ tres[p].status = "ok"
         /\ \E i \in 1..Len(collected) : collected[i] = p
    /\ Len(collected) = partNumber - 1
    /\ Len(completedParts) = partNumber - 1
    /\ \A p \in Parts : tpc[p] \in {"none", "exited"}
    /\ FailedParts = {}

\* Complete was invoked for a file of at least two parts
NoPartialManifestWitness ==
  /\ Concurrent
  /\ completeCalls = 1
  /\ partNumber - 1 >= 2
  /\ Len(manifest) = partNumber - 1

\* C9: for partSize > 0 the parts read are numbered from 1, part i starts at
\* (i-1)*partSize with length min(partSize, fileSize - offset) > 0, the
\* ranges are contiguous from 0, and when the read loop has ended they cover
\* [0, fileSize) in ceil(fileSize/partSize) parts; 20,000,000 bytes in
\* parts of 8,388,608 are read as 8388608, 8388608, 3222784.
ChunkerPartition ==
  /\ (Concurrent /\ partSize > 0) =>
       /\ \A i \in Dispatched :
            /\ tpc[i] # "none"
            /\ toff[i] = (i - 1) * partSize
            /\ tlen[i] = Min(partSize, fileSize - toff[i])
            /\ tlen[i] > 0
            /\ toff[i] + tlen[i] = (IF i + 1 \in Dispatched THEN toff[i + 1] ELSE filePos)
       /\ \A i \in Parts \ Dispatched : tpc[i] = "none"
       /\ (Dispatched = {}) => filePos = 0
       /\ LoopExited =>
            /\ filePos = fileSize
            /\ partNumber - 1 = CeilDiv(fileSize, partSize)
  /\ BytesRead(20000000, 0, 8388608) = 8388608
  /\ BytesRead(20000000, 8388608, 8388608) = 8388608
  /\ BytesRead(20000000, 16777216, 8388608) = 3222784
  /\ BytesRead(20000000, 20000000, 8388608) = 0

\* the read loop ended after at least two parts, the last one short
ChunkerPartitionWitness ==
  /\ Concurrent
  /\ partSize > 0
  /\ LoopExited
  /\ partNumber - 1 >= 2
  /\ tlen[partNumber - 1] < partSize

\* C10: when CreateMultipartUpload returned an error the function has
\* returned that failure, no goroutine was spawned and neither UploadPart nor
\* CompleteMultipartUpload is ever called.
InitiateFailureAborts ==
  createResp = "err" =>
    /\ pc = "returned"
    /\ result.kind = "InitiateFailed"
    /\ initiateCalls = 1
    /\ NoUploadCalls /\ completeCalls = 0
    /\ \A p \in Parts : tpc[p] = "none"
    /\ closer = "none" /\ wg = 0

\* the initiate call failed and the function returned
InitiateFailureAbortsWitness ==
  /\ createResp = "err"
  /\ pc = "returned"
  /\ initiateCalls = 1

\* C11: within one run UploadPart is invoked at most once for each part
\* number, in both functions; a part whose call failed is not submitted
\* again (its goroutine is past the call and the call count stays 1).
NoRetry ==
  \A p \in Parts :
    /\ uploadCalls[p] <= 1
    /\ tres[p].status = "err" =>
         (uploadCalls[p] = 1 /\ tpc[p] \notin {"none", "acquire", "upload"})

\* a part failed, its goroutine has finished and the function has returned
NoRetryWitness ==
  \E p \in Parts :
    /\ tres[p].status = "err"
    /\ uploadCalls[p] = 1
    /\ tpc[p] = "exited"
    /\ pc = "returned"

FailedAfterInitiate ==
  pc = "returned" /\ createResp = "id" /\ result.kind # "Completed"

\* C12: on every failure return after a successful initiate (part failure,
\* failed Complete, read failure) the session on the store is still the
\* initiated, never completed one; no abort is ever issued, a part failure
\* is returned without any Complete call, and after the failure return the
\* session is left alone and Complete is not invoked.
NoCleanupOnFailure ==
  /\ [](session # "aborted")
  /\ [](FailedAfterInitiate => session = "initiated")
  /\ [](result.kind = "PartUploadFailed" => completeCalls = 0)
  /\ [][FailedAfterInitiate =>
          (session' = session /\ completeCalls' = completeCalls)]_vars

\* a part failure was returned, the remaining goroutines have run on, and the
\* session is still initiated
NoCleanupOnFailureWitness ==
  /\ result.kind = "PartUploadFailed"
  /\ session = "initiated"
  /\ partNumber - 1 >= 2
  /\ \A p \in Dispatched : tpc[p] = "exited"

EarlyFailures ==
  {"InvalidConfiguration", "OpenFailed", "InitiateFailed", "ReadFailed", "Panic"}

\* C13: CompleteMultipartUpload is invoked at most once; a run that returns
\* with the whole file read and no part failed has invoked it exactly once;
\* and what it returned is what the caller gets: success on success, its
\* error on failure.
ExactlyOnceCompletion ==
  /\ completeCalls <= 1
  /\ (pc = "returned" /\ result.kind \notin EarlyFailures /\ FailedParts = {})
       => completeCalls = 1
  /\ completeCalls = 1 =>
       /\ pc = "returned"
       /\ completeResp = "ok" => result.kind = "Completed"
       /\ completeResp = "err" => result.kind = "CompleteFailed"
       /\ completeResp # "none"
  /\ result.kind \in {"Completed", "CompleteFailed"} => completeCalls = 1

\* every part of a file of at least two parts succeeded, Complete failed and
\* the caller got that error
ExactlyOnceCompletionWitness ==
  /\ Concurrent
  /\ partNumber - 1 >= 2
  /\ \A p \in Dispatched : tres[p].status = "ok"
  /\ completeCalls = 1
  /\ completeResp = "err"
  /\ result.kind = "CompleteFailed"

\* C14: for a file of size 0 with partSize > 0 and 1 <= maxConcurrency <= 8
\* no goroutine is spawned and UploadPart is never called; unless opening,
\* initiating or reading failed, the run initiates once and returns the
\* outcome of one CompleteMultipartUpload call made with an empty parts list.
ZeroLengthFile ==
  (ValidConcurrency /\ fileSize = 0 /\ partSize > 0) =>
    /\ NoUploadCalls
    /\ \A p \in Parts : tpc[p] = "none"
    /\ wg = 0
    /\ (pc = "returned" /\ result.kind \notin {"OpenFailed", "InitiateFailed", "ReadFailed"})
         => /\ initiateCalls = 1
            /\ completeCalls = 1
            /\ manifest = <<>>
            /\ result.kind \in {"Completed", "CompleteFailed"}

\* an empty file was completed with an empty manifest
ZeroLengthFileWitness ==
  /\ ValidConcurrency /\ fileSize = 0 /\ partSize > 0
  /\ pc = "returned"
  /\ session = "completed"
  /\ completeCalls = 1 /\ manifest = <<>>

Sequential == fn = "sequential"

\* C15: in MultipartUpload at most one UploadPart call is in flight, and the
\* call for a part has started only if the calls for all lower part numbers
\* have returned successfully; so parts are uploaded one after the other in
\* ascending part number.
SequentialUploads ==
  Sequential =>
    /\ Cardinality(InFlight) <= 1
    /\ \A p \in Parts :
         uploadCalls[p] > 0 =>
           \A q \in 1..(p - 1) : tres[q].status = "ok" /\ tpc[q] = "exited"

\* the third part is being uploaded after the first two returned
SequentialUploadsWitness ==
  /\ Sequential
  /\ tpc[3] = "upload"
  /\ tres[1].status = "ok" /\ tres[2].status = "ok"

UploadStartOrder ==
  Concurrent =>
    \A i, j \in Parts : (i < j /\ uploadCalls[j] > 0) => uploadCalls[i] > 0

\* C17 amended: the goroutines are spawned in ascending part number: the
\* spawned parts are exactly 1..partNumber-1, so part j's goroutine never
\* exists before part i's for i < j (the order in which their UploadPart
\* calls start is left to the scheduler).
SpawnOrder ==
  Concurrent =>
    /\ \A p \in Parts : (tpc[p] # "none") <=> (p \in Dispatched)
    /\ \A i, j \in Parts : (i < j /\ tpc[j] # "none") => tpc[i] # "none"

\* part 2's upload has started while part 1, spawned first, still waits
SpawnOrderWitness ==
  /\ Concurrent
  /\ tpc[1] = "acquire" /\ uploadCalls[1] = 0
  /\ uploadCalls[2] > 0

\* C18: with 1 <= maxConcurrency <= 8 and partSize > 0, for every file size
\* (every part count, also more than 2*maxConcurrency parts) and every
\* outcome of the remote calls, a fairly scheduled run of
\* ConcurrentMultipartUpload eventually returns.
EventuallyReturns ==
  (ValidConcurrency /\ partSize > 0) ~> (pc = "returned" /\ result.kind # "running")

\* a run of more than 2*maxConcurrency parts, all successful, has returned
\* after completing the upload
EventuallyReturnsWitness ==
  /\ ValidConcurrency /\ partSize > 0
  /\ partNumber - 1 > 2 * maxConcurrency
  /\ pc = "returned"
  /\ session = "completed"

\* position of a coordinator label in the order Initiating, Chunking and
\* Dispatching, Aggregating, Completing, terminal (Done or Failed)
PhaseRank(l) ==
  CASE l \in {"validate", "open", "initiate", "seqOpen", "seqInitiate"} -> 0
    [] l \in {"make", "read", "seqAlloc", "seqRead", "seqUpload"} -> 1
    [] l \in {"spawnCloser", "collect"} -> 2
    [] l \in {"complete", "seqComplete"} -> 3
    [] l = "returned" -> 4

\* C19: in one invocation CreateMultipartUpload is called at most once and
\* never after a part was dispatched; the coordinator's phase only moves
\* forward in the order Initiating, Chunking/Dispatching, Aggregating,
\* Completing, terminal; the result Completed is reached only through one
\* CompleteMultipartUpload call; and once the function has returned (Done or
\* Failed) its result stays and the coordinator issues no further
\* CreateMultipartUpload, CompleteMultipartUpload or (sequential) UploadPart.
StateMachine ==
  [][ /\ initiateCalls' <= 1
      /\ (partNumber > 1 => initiateCalls' = initiateCalls)
      /\ PhaseRank(pc') >= PhaseRank(pc)
      /\ (PhaseRank(pc') = 3 => PhaseRank(pc) \in {1, 2, 3})
      /\ (result'.kind = "Completed" => (pc = "returned" \/ PhaseRank(pc) = 3))
      /\ (result'.kind = "Completed" => completeCalls' = 1)
      /\ (pc = "returned" =>
            /\ pc' = "returned"
            /\ result' = result
            /\ initiateCalls' = initiateCalls
            /\ completeCalls' = completeCalls
            /\ (Sequential => uploadCalls' = uploadCalls)) ]_vars

\* a concurrent run of three parts that went through every phase and
\* returned Completed
StateMachineWitness ==
  /\ Concurrent
  /\ pc = "returned"
  /\ result.kind = "Completed"
  /\ initiateCalls = 1 /\ completeCalls = 1
  /\ partNumber - 1 = 3

\* C20: in ConcurrentMultipartUpload the payload handed to UploadPart for
\* part i is the bytes of part i's own range, offset (i-1)*partSize and the
\* length that was read for it; and from the moment the goroutine is spawned
\* until its call is made, the buffer it captured still holds those bytes,
\* whatever the coordinator reads next and whatever other goroutines do.
OwnPayload ==
  (Concurrent /\ partSize > 0) =>
    /\ \A p \in Parts :
         uploadCalls[p] > 0 =>
           /\ body[p] = [off |-> (p - 1) * partSize, len |-> tlen[p]]
           /\ body[p].len = Min(partSize, fileSize - body[p].off)
    /\ \A p \in Parts :
         tpc[p] \in {"acquire", "upload"} =>
           /\ toff[p] = (p - 1) * partSize
           /\ heap[tbuf[p]] = toff[p]
    /\ \A p, q \in Parts :
         (p # q /\ tpc[p] # "none" /\ tpc[q] # "none") => tbuf[p] # tbuf[q]

\* part 1's call is made after the coordinator has read parts 2 and 3, while
\* part 2's call is in flight
OwnPayloadWitness ==
  /\ Concurrent /\ partSize = 1
  /\ partNumber = 4
  /\ tpc[2] = "upload"
  /\ tpc[1] = "upload"
  /\ uploadCalls[1] = 1 /\ uploadCalls[2] = 1

\* C21: every UploadPart call and the CompleteMultipartUpload call of a run
\* carry the upload id that the run's one CreateMultipartUpload call
\* returned, and no UploadPart or CompleteMultipartUpload call is made unless
\* CreateMultipartUpload has returned an id.
SessionCorrelation ==
  /\ \A p \in Parts :
       uploadCalls[p] > 0 =>
         /\ initiateCalls = 1 /\ createResp = "id"
         /\ partUploadId[p] = createResp
  /\ completeCalls > 0 =>
         /\ initiateCalls = 1 /\ createResp = "id"
         /\ completeUploadId = createResp
  /\ \A p \in Parts : uploadCalls[p] = 0 => partUploadId[p] = "unset"

\* a concurrent run that uploaded two parts and called CompleteMultipartUpload
SessionCorrelationWitness ==
  /\ Concurrent
  /\ uploadCalls[1] = 1 /\ uploadCalls[2] = 1
  /\ completeCalls = 1
  /\ completeUploadId = "id"

\* C22: in ConcurrentMultipartUpload the coordinator receives the PartResults
\* in the order the goroutines delivered them to partCh, not in part order:
\* each receive takes the oldest buffered result, whatever its part number,
\* and a buffered result can always be received at once, also while a lower
\* part has not delivered yet.
ArrivalOrderCollection ==
  /\ [][(Concurrent /\ collected' # collected) =>
          /\ partCh # <<>>
          /\ collected' = Append(collected, Head(partCh).PartNumber)
          /\ partCh' = Tail(partCh)]_vars
  /\ []((Concurrent /\ pc = "collect" /\ partCh # <<>>) => ENABLED Collect)

\* part 2 was received first although the upload of part 1 has not returned
ArrivalOrderCollectionWitness ==
  /\ Concurrent
  /\ collected = <<2>>
  /\ tpc[1] = "upload"

\* C23: dispatch and aggregation overlap: the coordinator begins receiving
\* PartResults as soon as the first task has finished, so a result that a
\* goroutine has delivered to partCh never waits there while the coordinator
\* is still reading and spawning further parts.
AggregationOverlapsDispatch ==
  Concurrent => ~(partCh # <<>> /\ pc = "read" /\ filePos < fileSize)

\* C24: in MultipartUpload, if UploadPart fails for part k the function
\* returns a part-upload error that names part k, no UploadPart call is made
\* for any part after k, and CompleteMultipartUpload is not called.
SequentialStopsAtFailure ==
  Sequential =>
    \A k \in Parts :
      tres[k].status = "err" =>
        /\ pc = "returned"
        /\ result.kind = "PartUploadFailed" /\ result.part = k
        /\ \A j \in Parts : j > k => uploadCalls[j] = 0
        /\ \A j \in Parts : j < k => tres[j].status = "ok"
        /\ completeCalls = 0 /\ manifest = <<>>

\* a three-part file whose second part fails after the first succeeded
SequentialStopsAtFailureWitness ==
  /\ Sequential
  /\ fileSize = 3 /\ partSize = 1
  /\ tres[1].status = "ok"
  /\ tres[2].status = "err"
  /\ pc = "returned"

\* C25: in ConcurrentMultipartUpload, however many parts fail, the part the
\* returned error names is a part whose UploadPart call returned an error
\* (never a part that succeeded or has not finished): it is the part of the
\* first failed PartResult the coordinator received, every result received
\* before it was a success; and once any part's result carries an error
\* CompleteMultipartUpload is never called.
MultipleFailures ==
  Concurrent =>
    /\ result.kind = "PartUploadFailed" =>
         /\ result.part \in FailedParts
         /\ collected # <<>>
         /\ result.part = collected[Len(collected)]
         /\ \A i \in 1..(Len(collected) - 1) : tres[collected[i]].status = "ok"
    /\ completeCalls > 0 => FailedParts = {}

\* parts 1 and 2 both failed and the error names part 2, received first
MultipleFailuresWitness ==
  /\ Concurrent
  /\ tres[1].status = "err" /\ tres[2].status = "err"
  /\ result.kind = "PartUploadFailed" /\ result.part = 2

\* the manifest and the UploadPart requests that a file of fileSize bytes cut
\* into parts of partSize bytes calls for: one entry per part, ascending,
\* each with the tag of the part's own byte range
PartCount == CeilDiv(fileSize, partSize)
PartLength(i) == Min(partSize, fileSize - (i - 1) * partSize)
ReferenceManifest ==
  [i \in 1..PartCount |->
     [PartNumber |-> i, ETag |-> ETagOf((i - 1) * partSize, PartLength(i))]]
ReferenceRequests == {<<i, PartLength(i)>> : i \in 1..PartCount}
IssuedRequests == {<<p, body[p].len>> : p \in {q \in Parts : uploadCalls[q] > 0}}

\* C26: for the same file and part size, when every part succeeds,
\* MultipartUpload and ConcurrentMultipartUpload (any 1 <= maxConcurrency
\* <= 8, any interleaving) pass the same ordered manifest to
\* CompleteMultipartUpload and issue the same set of (part number, length)
\* UploadPart requests: both equal the one manifest and request set that
\* the file size and part size determine.
SequentialConcurrentEquivalence ==
  ((Sequential \/ ValidConcurrency) /\ partSize > 0 /\ completeCalls > 0) =>
    /\ manifest = ReferenceManifest
    /\ IssuedRequests = ReferenceRequests
    /\ \A p \in Parts : uploadCalls[p] <= 1

\* a concurrent run of three parts that arrived out of order and still
\* passed the reference manifest
SequentialConcurrentEquivalenceWitness ==
  /\ ValidConcurrency
  /\ completeCalls = 1
  /\ collected = <<3, 1, 2>>
  /\ Len(manifest) = 3

\* C27: in ConcurrentMultipartUpload, if reading the file fails after some
\* parts were dispatched, the function returns a read error,
\* CompleteMultipartUpload is never called, and at the return every
\* goroutine that was spawned has finished.
ReadFailureSettlesAll ==
  (Concurrent /\ result.kind = "ReadFailed") =>
    /\ pc = "returned"
    /\ completeCalls = 0
    /\ \A p \in Parts : tpc[p] \in {"none", "exited"}

Unfinished == {p \in Parts : tpc[p] \notin {"none", "exited"}}

\* the coordinator has received a PartResult only if the read loop has ended
\* with the whole file read and a goroutine spawned for every part
CollectAfterDispatch ==
  (Concurrent /\ collected # <<>>) =>
    /\ LoopExited
    /\ filePos = fileSize
    /\ \A p \in 1..PartCount : tpc[p] # "none"

\* C28: the read loop of ConcurrentMultipartUpload never waits for the pool:
\* while the coordinator is in the loop its next iteration can always run,
\* whatever the semaphore and partCh hold, so spawned and unfinished
\* goroutines may outnumber maxConcurrency while UploadPart calls in flight
\* may not; and the coordinator receives its first PartResult only after
\* the last part has been read and spawned.
DispatchNeverBlocks ==
  /\ (Concurrent /\ pc = "read" /\ partSize >= 0) => ENABLED ReadPart
  /\ ValidConcurrency => Cardinality(InFlight) <= maxConcurrency
  /\ (Concurrent /\ pc \in {"read", "spawnCloser"}) => collected = <<>>
  /\ CollectAfterDispatch

\* the loop has spawned more goroutines than there are slots, the slots are
\* all taken and the coordinator is still in the loop
DispatchNeverBlocksWitness ==
  /\ ValidConcurrency
  /\ pc = "read"
  /\ Cardinality(Unfinished) > maxConcurrency
  /\ Cardinality(InFlight) = maxConcurrency
  /\ filePos < fileSize

\* number of PartResults for part p that were delivered to partCh (received
\* by the coordinator or still buffered)
Delivered(p) ==
  Cardinality({i \in 1..Len(collected) : collected[i] = p})
    + Cardinality({i \in 1..Len(partCh) : partCh[i].PartNumber = p})

====
